---- MODULE Spec2Model ----
(***************************************************************************)
(* Model of packages/angular_devkit/build_angular/src/tools/esbuild/       *)
(* utils.ts: writeResultFiles / emitFilesToDisk (bounded file writer),     *)
(* calculateEstimatedTransferSizes (transfer size estimator) and the three *)
(* BuildOutputFile constructors with their clone().                        *)
(*                                                                         *)
(* JavaScript runs every handler to completion: one action of the model is *)
(* one macrotask (a call, or the completion of one fs / zlib request)      *)
(* together with all the promise continuations (microtasks) it triggers.   *)
(***************************************************************************)
EXTENDS Integers, Sequences, FiniteSets, TLC

VARIABLES
    \* ---- writeResultFiles / emitFilesToDisk
    outputFiles,      \* argument: sequence of BuildOutputFile [type, path]
    assetFiles,       \* argument: sequence of BuildOutputAsset [destination]
    stage,            \* "idle" | "artifacts" | "assets" | "returned"
    fileIndex,        \* emitFilesToDisk's loop variable in the current stage
    actions,          \* items whose promises are in the current Promise.all
    status,           \* per item: position of its write callback
    directoryExists,  \* the Set<string> of writeResultFiles
    mkdirCalls,       \* per directory: number of fs.mkdir calls issued
    mkdirDone,        \* directories whose fs.mkdir has completed successfully
    result,           \* promise of writeResultFiles: pending/resolved/rejected
    error,            \* item whose error rejected the promise, or NoItem
    \* ---- calculateEstimatedTransferSizes
    estFiles,         \* argument: sequence of OutputFile [path, contents]
    estPc,            \* "idle" | "called"
    sizes,            \* the Map<string, number>
    completeCount,    \* the counter of the promise executor
    cb,               \* per file: none / pending / ok / error (brotli callback)
    compressCalls,    \* number of brotliCompress calls issued
    promise,          \* returned promise: pending / resolved / rejected
    estError,         \* index of the file whose error rejected it, or 0
    \* ---- BuildOutputFile constructors and clone()
    heap,             \* the bytes of each Uint8Array, by reference
    orig,             \* the BuildOutputFile built by one of the constructors
    cloned,           \* the result of orig.clone(), or NoFile
    clonePc,          \* "init" | "created" | "cloned" | "mutated"
    mutations         \* number of writes into the source buffer

wvars == <<outputFiles, assetFiles, stage, fileIndex, actions, status,
           directoryExists, mkdirCalls, mkdirDone, result, error>>

evars == <<estFiles, estPc, sizes, completeCount, cb, compressCalls,
           promise, estError>>

cvars == <<heap, orig, cloned, clonePc, mutations>>

vars == <<wvars, evars, cvars>>

\* ------------------------------------------------------------------ bounds
\* Width of a wave.  The source sets 64 (utils.ts:264); the model checks the
\* same loop with a small width so that several waves fit in a bounded run.
MAX_CONCURRENT_WRITES == 2
MaxOutputFiles == 3
MaxAssetFiles == 2
MaxEstFiles == 3
MaxBytes == 2
MaxMutations == 2

\* ----------------------------------------------------------------- helpers
Min(a, b) == IF a < b THEN a ELSE b

SeqsUpTo(S, n) == UNION {[1..k -> S] : k \in 0..n}

NoItem == <<"none", 0>>

NoFile == [ctor |-> "none"]

\* ------------------------------------------------ NormalizedOutputOptions
\* Paths are sequences of segments; '' is the empty sequence.
browser == <<"browser">>
server == <<"server">>

\* path.join of two relative paths
join(a, b) == a \o b

\* path.dirname ("." is the empty sequence)
dirname(p) == IF Len(p) = 0 THEN <<>> ELSE SubSeq(p, 1, Len(p) - 1)

\* -------------------------------------------------------------- the inputs
FileChoices ==
    { [type |-> "Browser", path |-> <<"main.js">>],
      [type |-> "Browser", path |-> <<"polyfills.js">>],
      [type |-> "Media", path |-> <<"media", "logo.png">>],
      [type |-> "Server", path |-> <<"main.server.mjs">>],
      [type |-> "Root", path |-> <<"3rdpartylicenses.txt">>],
      [type |-> "Unhandled", path |-> <<"x.bin">>] }

AssetChoices ==
    { [destination |-> <<"favicon.ico">>],
      [destination |-> <<"media", "a.svg">>] }

\* the switch on file.type: the cases that assign outputDir
HandledType(type) == type \in {"Browser", "Media", "Server", "Root"}

OutputDir(type) ==
    CASE type \in {"Browser", "Media"} -> browser
      [] type = "Server" -> server
      [] OTHER -> <<>>

Items == ({"artifacts"} \X (1..Len(outputFiles)))
            \cup ({"assets"} \X (1..Len(assetFiles)))

FilesOf(stg) == IF stg = "artifacts" THEN outputFiles ELSE assetFiles

\* destPath of the two callbacks
DestPath(it) ==
    IF it[1] = "artifacts"
    THEN join(OutputDir(outputFiles[it[2]].type), outputFiles[it[2]].path)
    ELSE join(browser, assetFiles[it[2]].destination)

\* basePath of ensureDirectoryExists
DirOf(it) == dirname(DestPath(it))

AllDirs == {dirname(join(OutputDir(f.type), f.path)) : f \in FileChoices}
              \cup {dirname(join(browser, a.destination)) : a \in AssetChoices}

\* the callback throws before any fs call
Throws(it) == it[1] = "artifacts" /\ ~HandledType(outputFiles[it[2]].type)

InFlightStatus == {"mkdir", "write"}
FailedStatus == {"threw", "mkdirFailed", "writeFailed"}

\* ---------------------------------------------------- ensureDirectoryExists
NeedsMkdirInverted(cache, dir) == dir \in cache

\* if (!directoryExists.has(basePath))
NeedsMkdir(cache, dir) == dir \notin cache

\* The callback runs synchronously up to its first pending fs request.
LaunchStatus(it, cache) ==
    IF Throws(it) THEN "threw"
    ELSE IF NeedsMkdir(cache, DirOf(it)) THEN "mkdir"
    ELSE "write"

\* ----------------------------------------------------------- emitFilesToDisk
GroupMaxUnbounded(idx, len) == len

\* const groupMax = Math.min(fileIndex + MAX_CONCURRENT_WRITES, files.length)
GroupMax(idx, len) == Min(idx + MAX_CONCURRENT_WRITES, len)

PromiseAllAny(acts, st) ==
    IF \E it \in acts : st[it] \in FailedStatus THEN "rejected"
    ELSE IF \E it \in acts : st[it] = "done" THEN "fulfilled"
    ELSE "pending"

PromiseAllSettled(acts, st) ==
    IF \E it \in acts : st[it] \in InFlightStatus THEN "pending"
    ELSE IF \E it \in acts : st[it] \in FailedStatus THEN "rejected"
    ELSE "fulfilled"

\* await Promise.all(actions): rejects with the first rejection, fulfils
\* when every promise has fulfilled
PromiseAll(acts, st) ==
    IF \E it \in acts : st[it] \in FailedStatus THEN "rejected"
    ELSE IF \A it \in acts : st[it] = "done" THEN "fulfilled"
    ELSE "pending"

\* first element of the actions array that is rejected
FirstFailed(acts, st) ==
    CHOOSE it \in acts : /\ st[it] \in FailedStatus
                         /\ \A o \in acts : st[o] \in FailedStatus => it[2] <= o[2]

\* One iteration of the for loop: launch files[idx+1 .. groupMax], then
\* await Promise.all.  Only a callback that threw is settled at this point.
StartWave(stg, idx, st) ==
    LET gmax == GroupMax(idx, Len(FilesOf(stg)))
        wave == {stg} \X ((idx + 1)..gmax)
        st2 == [it \in Items |->
                  IF it \in wave THEN LaunchStatus(it, directoryExists)
                  ELSE st[it]]
    IN  /\ stage' = stg
        /\ fileIndex' = gmax
        /\ actions' = wave
        /\ status' = st2
        /\ mkdirCalls' = [d \in AllDirs |-> mkdirCalls[d] +
               Cardinality({it \in wave : st2[it] = "mkdir" /\ DirOf(it) = d})]
        /\ IF PromiseAll(wave, st2) = "rejected"
           THEN result' = "rejected" /\ error' = FirstFailed(wave, st2)
           ELSE UNCHANGED <<result, error>>

\* The loop condition of emitFilesToDisk and, when the loop ends, the rest
\* of writeResultFiles (the assetFiles?.length test and the second call).
Continue(stg, idx, st) ==
    IF idx < Len(FilesOf(stg))
    THEN StartWave(stg, idx, st)
    ELSE IF stg = "artifacts" /\ Len(assetFiles) > 0
    THEN StartWave("assets", 0, st)
    ELSE /\ stage' = "returned"
         /\ result' = "resolved"
         /\ actions' = {}
         /\ status' = st
         /\ UNCHANGED <<fileIndex, mkdirCalls, error>>

\* What follows the settlement of one callback promise.
AfterSettle(it, st) ==
    IF result = "pending" /\ it \in actions
    THEN CASE PromiseAll(actions, st) = "rejected" ->
                /\ result' = "rejected"
                /\ error' = it
                /\ status' = st
                /\ UNCHANGED <<stage, fileIndex, actions, mkdirCalls>>
           [] PromiseAll(actions, st) = "fulfilled" ->
                Continue(stage, fileIndex, st)
           [] OTHER ->
                /\ status' = st
                /\ UNCHANGED <<stage, fileIndex, actions, mkdirCalls, result, error>>
    ELSE /\ status' = st
         /\ UNCHANGED <<stage, fileIndex, actions, mkdirCalls, result, error>>


\* ----------------------------------- the parts that a specification leaves out
IdleWrite ==
    /\ outputFiles = <<>>
    /\ assetFiles = <<>>
    /\ stage = "idle"
    /\ fileIndex = 0
    /\ actions = {}
    /\ status = <<>>
    /\ directoryExists = {}
    /\ mkdirCalls = <<>>
    /\ mkdirDone = {}
    /\ result = "pending"
    /\ error = NoItem

IdleEst ==
    /\ estFiles = <<>>
    /\ estPc = "idle"
    /\ sizes = <<>>
    /\ completeCount = 0
    /\ cb = <<>>
    /\ compressCalls = 0
    /\ promise = "pending"
    /\ estError = 0

IdleClone ==
    /\ heap = <<>>
    /\ orig = NoFile
    /\ cloned = NoFile
    /\ clonePc = "init"
    /\ mutations = 0

\* ------------------------------------------------------------------ actions
writeResultFiles ==
    /\ stage = "idle"
    /\ Continue("artifacts", 0, status)
    /\ UNCHANGED <<outputFiles, assetFiles, directoryExists, mkdirDone, evars, cvars>>

\* fs.mkdir resolves: directoryExists.add(basePath), then the callback
\* issues fs.writeFile / fs.copyFile
MkdirSucceeds(it) ==
    /\ status[it] = "mkdir"
    /\ mkdirDone' = mkdirDone \cup {DirOf(it)}
    /\ directoryExists' = directoryExists \cup {DirOf(it)}
    /\ AfterSettle(it, [status EXCEPT ![it] = "write"])
    /\ UNCHANGED <<outputFiles, assetFiles, evars, cvars>>

\* fs.mkdir rejects: the callback rejects, nothing is added to the cache
MkdirFails(it) ==
    /\ status[it] = "mkdir"
    /\ AfterSettle(it, [status EXCEPT ![it] = "mkdirFailed"])
    /\ UNCHANGED <<outputFiles, assetFiles, directoryExists, mkdirDone, evars, cvars>>

\* fs.writeFile / fs.copyFile resolves
WriteSucceeds(it) ==
    /\ status[it] = "write"
    /\ AfterSettle(it, [status EXCEPT ![it] = "done"])
    /\ UNCHANGED <<outputFiles, assetFiles, directoryExists, mkdirDone, evars, cvars>>

\* fs.writeFile / fs.copyFile rejects
WriteFails(it) ==
    /\ status[it] = "write"
    /\ AfterSettle(it, [status EXCEPT ![it] = "writeFailed"])
    /\ UNCHANGED <<outputFiles, assetFiles, directoryExists, mkdirDone, evars, cvars>>

InitWrite ==
    /\ IdleEst
    /\ IdleClone
    /\ outputFiles \in SeqsUpTo(FileChoices, MaxOutputFiles)
    /\ assetFiles \in SeqsUpTo(AssetChoices, MaxAssetFiles)
    /\ stage = "idle"
    /\ fileIndex = 0
    /\ actions = {}
    /\ status = [it \in Items |-> "idle"]
    /\ directoryExists = {}
    /\ mkdirCalls = [d \in AllDirs |-> 0]
    /\ mkdirDone = {}
    /\ result = "pending"
    /\ error = NoItem

NextWrite ==
    \/ writeResultFiles
    \/ \E it \in Items : MkdirSucceeds(it)
    \/ \E it \in Items : MkdirFails(it)
    \/ \E it \in Items : WriteSucceeds(it)
    \/ \E it \in Items : WriteFails(it)

SpecWrite == InitWrite /\ [][NextWrite]_vars

\* ------------------------------------------- properties of writeResultFiles
InFlight == {it \in Items : status[it] \in InFlightStatus}
Launched == {it \in Items : status[it] # "idle"}
AnyFailed == \E it \in Items : status[it] \in FailedStatus

\* position of an item in the reference partition of its list into waves
WaveOf(it) == (it[2] - 1) \div MAX_CONCURRENT_WRITES

Earlier(j, i) ==
    \/ j[1] = "artifacts" /\ i[1] = "assets"
    \/ j[1] = i[1] /\ WaveOf(j) < WaveOf(i)

\* C1: at any moment of a writeResultFiles invocation, failing runs
\* included, the number of write/copy callbacks launched and not yet settled
\* is at most MAX_CONCURRENT_WRITES.
C1_InFlightBounded == Cardinality(InFlight) <= MAX_CONCURRENT_WRITES

\* a full wave of asset copies is in flight after the artifact waves
C1_Witness ==
    /\ stage = "assets"
    /\ Cardinality(InFlight) = Min(MAX_CONCURRENT_WRITES, MaxAssetFiles)
    /\ \E it \in Items : it[1] = "artifacts"

\* C2 as stated: when the failure is reported to the caller, no callback of
\* the failing wave is still in flight.
C2_RejectsAfterWaveSettled ==
    result = "rejected" => \A it \in actions : status[it] \notin InFlightStatus

\* C2 amended: the promise rejects in the very step in which the first
\* callback fails, with that callback's error, whatever the other callbacks
\* of the wave are doing.
C2_RejectsOnFirstFailure ==
    /\ [](AnyFailed <=> result = "rejected")
    /\ [](result = "rejected" => error \in actions /\ status[error] \in FailedStatus)
    /\ [][(result = "pending" /\ result' = "rejected") =>
            /\ \A it \in Items : status[it] \notin FailedStatus
            /\ status'[error'] \in FailedStatus]_vars

\* the failure has been reported while a callback of the same wave is still
\* in flight
C2_Witness ==
    /\ result = "rejected"
    /\ \E it \in actions : status[it] \in InFlightStatus

\* C3 as stated: in a completed invocation fs.mkdir has been called exactly
\* once for each distinct destination directory and never for another one.
C3_MkdirOncePerDirectory ==
    result = "resolved" =>
        \A d \in AllDirs :
            mkdirCalls[d] = IF d \in {DirOf(it) : it \in Items} THEN 1 ELSE 0

\* C8: the launched items follow the partition of each list into contiguous
\* waves of MAX_CONCURRENT_WRITES: a wave is launched as a whole, and only
\* when every item of every earlier wave (the artifact waves before the asset
\* waves) has completed successfully.
C8_WavesInSequence ==
    \A i \in Launched :
        /\ \A j \in Items : Earlier(j, i) => status[j] = "done"
        /\ \A j \in Items : (j[1] = i[1] /\ WaveOf(j) = WaveOf(i)) => j \in Launched

\* an item has been launched after an earlier wave
C8_Witness == \E i \in Launched : \E j \in Items : Earlier(j, i)

\* C9: a write or copy has started only into a directory whose fs.mkdir has
\* completed successfully in this invocation, and the cache holds only such
\* directories.
C9_WriteAfterMkdir ==
    /\ directoryExists \subseteq mkdirDone
    /\ \A it \in Items :
          status[it] \in {"write", "done", "writeFailed"} => DirOf(it) \in mkdirDone

\* a callback is writing that found its directory in the cache
C9_Witness ==
    \E it \in Items :
        /\ status[it] = "write"
        /\ mkdirCalls[DirOf(it)] <
              Cardinality({j \in Items : /\ status[j] \notin {"idle", "threw"}
                                         /\ DirOf(j) = DirOf(it)})

\* ============================================ calculateEstimatedTransferSizes
\* Paths are sequences of characters.
PathJs == <<"a", ".", "j", "s">>
PathCss == <<"b", ".", "c", "s", "s">>
PathMap == <<"a", ".", "j", "s", ".", "m", "a", "p">>
PathNoDot == <<"j", "s">>

\* Contents are known by their byteLength and by the byteLength of what
\* brotliCompress produces for them.
ContentChoices ==
    { [byteLength |-> 1023, brotli |-> 300],
      [byteLength |-> 1024, brotli |-> 1028],
      [byteLength |-> 2000, brotli |-> 40] }

EstFileChoices ==
    [path : {PathJs, PathCss, PathMap, PathNoDot}, contents : ContentChoices]

SmallFileThreshold == 1024

\* String.prototype.endsWith
endsWith(s, suffix) ==
    /\ Len(s) >= Len(suffix)
    /\ SubSeq(s, Len(s) - Len(suffix) + 1, Len(s)) = suffix

\* negation of the first test of the loop
IsJsOrCss(path) ==
    ~(~endsWith(path, <<".", "j", "s">>) /\ ~endsWith(path, <<".", "c", "s", "s">>))

IsSmallInclusive(contents) == contents.byteLength <= SmallFileThreshold

\* outputFile.contents.byteLength < 1024
IsSmall(contents) == contents.byteLength < SmallFileThreshold

ShouldResolveEarly(count, len) == count >= len - 1

ShouldResolveStrict(count, len) == count > len

\* completeCount >= outputFiles.length
ShouldResolve(count, len) == count >= len

\* resolve() and reject() settle a promise only once
Settle(p, outcome) == IF p = "pending" THEN outcome ELSE p

OnCompressErrorIgnored(p) == p

\* if (error) { reject(error); return; }
OnCompressError(p) == Settle(p, "rejected")

EmptyMap == [x \in {} |-> 0]

\* Map.prototype.set
MapSet(m, k, v) == [x \in (DOMAIN m) \cup {k} |-> IF x = k THEN v ELSE m[x]]

\* The for loop of the promise executor over outputFiles[i..], which runs
\* synchronously: no brotli callback fires before it ends.
RECURSIVE ExecutorLoop(_, _)
ExecutorLoop(i, acc) ==
    IF i > Len(estFiles) THEN acc
    ELSE LET f == estFiles[i] IN
         IF ~IsJsOrCss(f.path)
         THEN ExecutorLoop(i + 1,
                [acc EXCEPT !.completeCount = @ + 1])
         ELSE IF IsSmall(f.contents)
         THEN ExecutorLoop(i + 1,
                [acc EXCEPT !.sizes = MapSet(@, f.path, f.contents.byteLength),
                            !.completeCount = @ + 1])
         ELSE ExecutorLoop(i + 1,
                [acc EXCEPT !.cb = [@ EXCEPT ![i] = "pending"],
                            !.compressCalls = @ + 1])

calculateEstimatedTransferSizes ==
    /\ estPc = "idle"
    /\ estPc' = "called"
    /\ IF Len(estFiles) <= 0
       THEN /\ promise' = "resolved"
            /\ UNCHANGED <<sizes, completeCount, cb, compressCalls>>
       ELSE LET acc == ExecutorLoop(1, [sizes |-> sizes, completeCount |-> 0,
                                        cb |-> cb, compressCalls |-> 0])
            IN  /\ sizes' = acc.sizes
                /\ completeCount' = acc.completeCount
                /\ cb' = acc.cb
                /\ compressCalls' = acc.compressCalls
                /\ promise' = IF ShouldResolve(acc.completeCount, Len(estFiles))
                              THEN Settle(promise, "resolved")
                              ELSE promise
    /\ UNCHANGED <<estFiles, estError, wvars, cvars>>

\* the brotliCompress callback of file i, called without error
CompressSucceeds(i) ==
    /\ i \in DOMAIN cb
    /\ cb[i] = "pending"
    /\ cb' = [cb EXCEPT ![i] = "ok"]
    /\ sizes' = MapSet(sizes, estFiles[i].path, estFiles[i].contents.brotli)
    /\ completeCount' = completeCount + 1
    /\ promise' = IF ShouldResolve(completeCount + 1, Len(estFiles))
                  THEN Settle(promise, "resolved")
                  ELSE promise
    /\ UNCHANGED <<estFiles, estPc, compressCalls, estError, wvars, cvars>>

\* the brotliCompress callback of file i, called with an error
CompressFails(i) ==
    /\ i \in DOMAIN cb
    /\ cb[i] = "pending"
    /\ cb' = [cb EXCEPT ![i] = "error"]
    /\ promise' = OnCompressError(promise)
    /\ estError' = IF promise = "pending" /\ promise' = "rejected" THEN i ELSE estError
    /\ UNCHANGED <<estFiles, estPc, sizes, completeCount, compressCalls, wvars, cvars>>

InitEst ==
    /\ IdleWrite
    /\ IdleClone
    /\ estFiles \in SeqsUpTo(EstFileChoices, MaxEstFiles)
    /\ estPc = "idle"
    /\ sizes = EmptyMap
    /\ completeCount = 0
    /\ cb = [i \in 1..Len(estFiles) |-> "none"]
    /\ compressCalls = 0
    /\ promise = "pending"
    /\ estError = 0

NextEst ==
    \/ calculateEstimatedTransferSizes
    \/ \E i \in 1..MaxEstFiles : CompressSucceeds(i)
    \/ \E i \in 1..MaxEstFiles : CompressFails(i)

SpecEst == InitEst /\ [][NextEst]_vars

\* every brotliCompress callback eventually fires
LiveEst ==
    /\ SpecEst
    /\ \A i \in 1..MaxEstFiles : WF_vars(CompressSucceeds(i) \/ CompressFails(i))

\* ----------------------------- properties of calculateEstimatedTransferSizes
\* the paths of EstFileChoices that end in '.js' or '.css'
QualifyingPaths == {PathJs, PathCss}

Qualifying == {i \in 1..Len(estFiles) : estFiles[i].path \in QualifyingPaths}

UniquePaths ==
    \A i, j \in 1..Len(estFiles) : estFiles[i].path = estFiles[j].path => i = j

\* the map the specification describes, for an input with unique paths
ReferenceMap ==
    [p \in {estFiles[i].path : i \in Qualifying} |->
        LET f == estFiles[CHOOSE i \in Qualifying : estFiles[i].path = p]
        IN  IF f.contents.byteLength < 1024 THEN f.contents.byteLength
            ELSE f.contents.brotli]

\* C4: when the promise is resolved no compression is outstanding and every
\* qualifying file of the input has its entry in the map.
C4_ResolvedOnlyWhenComplete ==
    promise = "resolved" =>
        /\ \A i \in DOMAIN cb : cb[i] # "pending"
        /\ \A i \in Qualifying : estFiles[i].path \in DOMAIN sizes

\* resolved by a callback although the last file of the input was skipped
C4_Witness ==
    /\ promise = "resolved"
    /\ Len(estFiles) >= 2
    /\ cb[1] = "ok"
    /\ cb[Len(estFiles)] = "none"

\* C5: once a compression has failed the promise is rejected, with the error
\* of a failed compression, and it is rejected only then; it is never
\* resolved, whatever the other callbacks do.
C5_FailureRejects ==
    /\ (\E i \in DOMAIN cb : cb[i] = "error") <=> promise = "rejected"
    /\ promise = "rejected" => estError \in DOMAIN cb /\ cb[estError] = "error"

\* rejected, with another compression completed successfully
C5_Witness ==
    /\ promise = "rejected"
    /\ \E i \in DOMAIN cb : cb[i] = "ok"
    /\ \A i \in DOMAIN cb : cb[i] # "pending"

\* C6: for an input with unique paths the resolved map is the reference map;
\* the empty input resolves at once with the empty map and no compression.
C6_ResolvedMapIsReference ==
    /\ (promise = "resolved" /\ UniquePaths) => sizes = ReferenceMap
    /\ (estPc = "called" /\ Len(estFiles) = 0) =>
            promise = "resolved" /\ sizes = EmptyMap /\ compressCalls = 0

\* resolved for an excluded file, a file of exactly 1024 bytes and a small one
C6_Witness ==
    /\ promise = "resolved"
    /\ UniquePaths
    /\ \E i \in Qualifying : estFiles[i].contents.byteLength = 1024
    /\ \E i \in Qualifying : estFiles[i].contents.byteLength < 1024
    /\ \E i \in 1..Len(estFiles) : i \notin Qualifying

AllFiredWithoutError == \A i \in DOMAIN cb : cb[i] \in {"none", "ok"}

\* C10: after the call, if every brotli callback eventually fires, the
\* promise eventually settles; the counter equals the input length exactly
\* when every callback has fired without error.
C10_PromiseSettles ==
    /\ (estPc = "called") ~> (promise # "pending")
    /\ [](estPc = "called" =>
            (completeCount = Len(estFiles) <=> AllFiredWithoutError))

\* settled by the test after the loop: a non-empty input with nothing to
\* compress
C10_Witness ==
    /\ promise = "resolved"
    /\ Len(estFiles) > 0
    /\ compressCalls = 0
    /\ completeCount = Len(estFiles)

\* ================================== BuildOutputFile constructors and clone()
\* A Uint8Array is a reference into the heap; a string is a sequence of code
\* points and is immutable.
SourceBuffer == "data"

ByteChoices == {65, 66, 200}

ReplacementCharacter == 65533

\* Buffer.prototype.toString('utf-8') on bytes that are ASCII or invalid
RECURSIVE Utf8Decode(_)
Utf8Decode(bytes) ==
    IF bytes = <<>> THEN <<>>
    ELSE <<IF Head(bytes) < 128 THEN Head(bytes) ELSE ReplacementCharacter>>
            \o Utf8Decode(Tail(bytes))

\* Buffer.from(text, 'utf-8')
RECURSIVE Utf8Encode(_)
Utf8Encode(text) ==
    IF text = <<>> THEN <<>>
    ELSE (IF Head(text) < 128 THEN <<Head(text)>> ELSE <<239, 191, 189>>)
            \o Utf8Encode(Tail(text))

\* createHash('sha256').update(text).digest('hex'), taken as injective
Sha256Hex(text) == <<"sha256", text>>

createOutputFileFromText(path, text, type) ==
    [ctor |-> "createOutputFileFromText", path |-> path, text |-> text, type |-> type]

\* the object closes over the reference `data`
createOutputFileFromData(path, data, type) ==
    [ctor |-> "createOutputFileFromData", path |-> path, data |-> data, type |-> type]

\* const { path, contents, hash } = file
convertOutputFile(file, type) ==
    [ctor |-> "convertOutputFile", contents |-> file.contents, hash |-> file.hash,
     path |-> file.path, type |-> type]

\* what `contents` evaluates to: a reference, or "fresh" for a new Buffer
ContentsRef(o) ==
    CASE o.ctor = "createOutputFileFromText" -> "fresh"
      [] o.ctor = "createOutputFileFromData" -> o.data
      [] o.ctor = "convertOutputFile" -> o.contents

\* the bytes read through `contents` in heap h
ContentsOf(o, h) ==
    IF o.ctor = "createOutputFileFromText" THEN Utf8Encode(o.text)
    ELSE h[ContentsRef(o)]

\* the `text` getter / field
TextOf(o, h) ==
    IF o.ctor = "createOutputFileFromText" THEN o.text
    ELSE Utf8Decode(h[ContentsRef(o)])

\* the `hash` getter / field
HashOf(o, h) ==
    IF o.ctor = "convertOutputFile" THEN o.hash
    ELSE Sha256Hex(TextOf(o, h))

cloneThroughText(o) ==
    IF o.ctor = "convertOutputFile" THEN convertOutputFile(o, o.type)
    ELSE createOutputFileFromText(o.path, TextOf(o, heap), o.type)

\* the clone() method of the three object literals
clone(o) ==
    CASE o.ctor = "createOutputFileFromText" ->
            createOutputFileFromText(o.path, o.text, o.type)
      [] o.ctor = "createOutputFileFromData" ->
            createOutputFileFromData(o.path, ContentsRef(o), o.type)
      [] o.ctor = "convertOutputFile" ->
            convertOutputFile(o, o.type)

ClonePaths == {<<"main.js">>, <<"styles.css">>}
CloneTypes == {"Browser", "Server"}
EsbuildHashes == {<<"esbuild", <<1>>>>, <<"esbuild", <<2>>>>}

\* the caller decodes the buffer and passes the string
CreateFromText ==
    /\ clonePc = "init"
    /\ \E p \in ClonePaths, t \in CloneTypes :
          orig' = createOutputFileFromText(p, Utf8Decode(heap[SourceBuffer]), t)
    /\ clonePc' = "created"
    /\ UNCHANGED <<heap, cloned, mutations, wvars, evars>>

CreateFromData ==
    /\ clonePc = "init"
    /\ \E p \in ClonePaths, t \in CloneTypes :
          orig' = createOutputFileFromData(p, SourceBuffer, t)
    /\ clonePc' = "created"
    /\ UNCHANGED <<heap, cloned, mutations, wvars, evars>>

\* file is an esbuild OutputFile, with the hash esbuild computed
Convert ==
    /\ clonePc = "init"
    /\ \E p \in ClonePaths, t \in CloneTypes, h \in EsbuildHashes :
          orig' = convertOutputFile([path |-> p, contents |-> SourceBuffer, hash |-> h], t)
    /\ clonePc' = "created"
    /\ UNCHANGED <<heap, cloned, mutations, wvars, evars>>

Clone ==
    /\ clonePc = "created"
    /\ cloned' = clone(orig)
    /\ clonePc' = "cloned"
    /\ UNCHANGED <<heap, orig, mutations, wvars, evars>>

\* some code writes a byte into the source buffer
MutateBuffer ==
    /\ clonePc \in {"created", "cloned", "mutated"}
    /\ mutations < MaxMutations
    /\ \E k \in 1..Len(heap[SourceBuffer]), b \in ByteChoices :
          /\ b # heap[SourceBuffer][k]
          /\ heap' = [heap EXCEPT ![SourceBuffer][k] = b]
    /\ mutations' = mutations + 1
    /\ clonePc' = IF clonePc = "created" THEN "created" ELSE "mutated"
    /\ UNCHANGED <<orig, cloned, wvars, evars>>

InitClone ==
    /\ IdleWrite
    /\ IdleEst
    /\ heap \in [{SourceBuffer} -> UNION {[1..n -> ByteChoices] : n \in 1..MaxBytes}]
    /\ orig = NoFile
    /\ cloned = NoFile
    /\ clonePc = "init"
    /\ mutations = 0

NextClone ==
    \/ CreateFromText
    \/ CreateFromData
    \/ Convert
    \/ Clone
    \/ MutateBuffer

SpecClone == InitClone /\ [][NextClone]_vars

\* ------------------------------------------------------ properties of clone()
\* C7 as stated: the clone has the path, type and hash of the original and a
\* write into the source buffer never changes the clone's contents.
C7_CloneIndependent ==
    /\ [](cloned # NoFile =>
            /\ cloned.path = orig.path
            /\ cloned.type = orig.type
            /\ HashOf(cloned, heap) = HashOf(orig, heap))
    /\ [][(cloned # NoFile /\ cloned' = cloned) =>
            ContentsOf(cloned', heap') = ContentsOf(cloned, heap)]_vars

\* C7 amended: the clone has the path, type and hash of the original; the
\* clone of a createOutputFileFromText file keeps its contents when the source
\* buffer is written, and the clone of a createOutputFileFromData or
\* convertOutputFile file has the original's buffer as its contents.
C7_CloneSharesBuffer ==
    /\ [](cloned # NoFile =>
            /\ cloned.ctor = orig.ctor
            /\ cloned.path = orig.path
            /\ cloned.type = orig.type
            /\ HashOf(cloned, heap) = HashOf(orig, heap)
            /\ ContentsRef(cloned) = ContentsRef(orig)
            /\ ContentsOf(cloned, heap) = ContentsOf(orig, heap))
    /\ [][(cloned # NoFile /\ cloned' = cloned
                /\ cloned.ctor = "createOutputFileFromText") =>
            ContentsOf(cloned', heap') = ContentsOf(cloned, heap)]_vars

\* the source buffer of a createOutputFileFromData file was written after
\* clone()
C7_Witness ==
    /\ clonePc = "mutated"
    /\ cloned # NoFile
    /\ cloned.ctor = "createOutputFileFromData"

====
